---- MODULE Spec2Model ----
(***************************************************************************)
(* Model of number-link/input/janko/to_compact_format.py: a filter that    *)
(* reads every line of standard input, splits each line on whitespace,     *)
(* converts each token with int(), indexes the 63-character string labels  *)
(* with it and prints the joined characters, one output line per input     *)
(* line.  A character is its Unicode code point and a text is a sequence   *)
(* of code points, as a Python str is.                                     *)
(***************************************************************************)
EXTENDS Integers, Sequences, FiniteSets

VARIABLES stdin, pos, lines, pc, i, stdout, err

vars == <<stdin, pos, lines, pc, i, stdout, err>>

\* Longest generated input, in characters.
MaxLen == 5

\* Largest magnitude of the one-token inputs -NumeralSpan .. NumeralSpan.
NumeralSpan == 65

----------------------------------------------------------------------------
\* Notation: the code points of the characters written in this module.

Letters ==
  <<"a", "b", "c", "d", "e", "f", "g", "h", "i", "j", "k", "l", "m",
    "n", "o", "p", "q", "r", "s", "t", "u", "v", "w", "x", "y", "z">>

Capitals ==
  <<"A", "B", "C", "D", "E", "F", "G", "H", "I", "J", "K", "L", "M",
    "N", "O", "P", "Q", "R", "S", "T", "U", "V", "W", "X", "Y", "Z">>

Numerals == <<"0", "1", "2", "3", "4", "5", "6", "7", "8", "9">>

\* ord(ch) for the characters this module writes as strings.
Ord(ch) ==
  IF \E k \in 1..26 : Letters[k] = ch THEN 96 + (CHOOSE k \in 1..26 : Letters[k] = ch)
  ELSE IF \E k \in 1..26 : Capitals[k] = ch THEN 64 + (CHOOSE k \in 1..26 : Capitals[k] = ch)
  ELSE IF \E k \in 1..10 : Numerals[k] = ch THEN 47 + (CHOOSE k \in 1..10 : Numerals[k] = ch)
  ELSE CASE ch = "\t" -> 9
         [] ch = "\n" -> 10
         [] ch = "\f" -> 12
         [] ch = "\r" -> 13
         [] ch = " " -> 32
         [] ch = "+" -> 43
         [] ch = "-" -> 45
         [] ch = "." -> 46
         [] ch = "_" -> 95

\* The text a sequence of one-character strings spells.
Str(cs) == [k \in 1..Len(cs) |-> Ord(cs[k])]

----------------------------------------------------------------------------
\* The program's data and the library functions it calls.

\* Mutant: the letter l mistyped as the digit 1, so two indices share a character.
labelsDup ==
  Str(<<".">> \o
      <<"0", "1", "2", "3", "4", "5", "6", "7", "8", "9">> \o
      <<"a", "b", "c", "d", "e", "f", "g", "h", "i", "j", "k", "1", "m",
         "n", "o", "p", "q", "r", "s", "t", "u", "v", "w", "x", "y", "z">> \o
      <<"A", "B", "C", "D", "E", "F", "G", "H", "I", "J", "K", "L", "M",
         "N", "O", "P", "Q", "R", "S", "T", "U", "V", "W", "X", "Y", "Z">>)

\* Mutant: the table without its leading ".", so index 10 is 'a'.
labelsNoDot ==
  Str(<<"0", "1", "2", "3", "4", "5", "6", "7", "8", "9">> \o
      <<"a", "b", "c", "d", "e", "f", "g", "h", "i", "j", "k", "l", "m",
         "n", "o", "p", "q", "r", "s", "t", "u", "v", "w", "x", "y", "z">> \o
      <<"A", "B", "C", "D", "E", "F", "G", "H", "I", "J", "K", "L", "M",
         "N", "O", "P", "Q", "R", "S", "T", "U", "V", "W", "X", "Y", "Z">> \o
      <<".">>)

\* Mutant: the digits placed at their own values, "." after them.
labelsDigitsFirst ==
  Str(<<"0", "1", "2", "3", "4", "5", "6", "7", "8", "9">> \o
      <<".">> \o
      <<"a", "b", "c", "d", "e", "f", "g", "h", "i", "j", "k", "l", "m",
         "n", "o", "p", "q", "r", "s", "t", "u", "v", "w", "x", "y", "z">> \o
      <<"A", "B", "C", "D", "E", "F", "G", "H", "I", "J", "K", "L", "M",
         "N", "O", "P", "Q", "R", "S", "T", "U", "V", "W", "X", "Y", "Z">>)

\* labels = "." + "0123456789" + "abc...z" "ABC...Z"   (Python index k is labels[k+1] here)
labels ==
  Str(<<".">> \o
      <<"0", "1", "2", "3", "4", "5", "6", "7", "8", "9">> \o
      <<"a", "b", "c", "d", "e", "f", "g", "h", "i", "j", "k", "l", "m",
         "n", "o", "p", "q", "r", "s", "t", "u", "v", "w", "x", "y", "z">> \o
      <<"A", "B", "C", "D", "E", "F", "G", "H", "I", "J", "K", "L", "M",
         "N", "O", "P", "Q", "R", "S", "T", "U", "V", "W", "X", "Y", "Z">>)

\* The characters str.split() separates on (those with str.isspace()):
\* \t \n \v \f \r, FS GS RS US, space, NEL, NBSP and the Unicode spaces
\* U+1680, U+2000-U+200A, U+2028, U+2029, U+202F, U+205F, U+3000.
WhiteSpace ==
  {9, 10, 11, 12, 13, 28, 29, 30, 31, 32, 133, 160, 5760}
    \cup (8192..8202) \cup {8232, 8233, 8239, 8287, 12288}

\* The code points of the digit zero of every Unicode decimal-digit script
\* (category Nd, Unicode 14.0); the digits 1..9 of a script follow its zero.
DigitZeros ==
  {48, 1632, 1776, 1984, 2406, 2534, 2662, 2790, 2918, 3046, 3174, 3302,
   3430, 3558, 3664, 3792, 3872, 4160, 4240, 6112, 6160, 6470, 6608, 6784,
   6800, 6992, 7088, 7232, 7248, 42528, 43216, 43264, 43472, 43504, 43600,
   44016, 65296, 66720, 68912, 69734, 69872, 69942, 70096, 70384, 70736,
   70864, 71248, 71360, 71472, 71904, 72016, 72784, 73040, 73120, 92768,
   92864, 93008, 120782, 120792, 120802, 120812, 120822, 123200, 123632,
   125264, 130032}

\* int() reads any Unicode decimal digit.
IsDigit(c) == \E z \in DigitZeros : z <= c /\ c <= z + 9

DigitVal(c) == c - (CHOOSE z \in DigitZeros : z <= c /\ c <= z + 9)

\* int() refuses a string of more than sys.int_info.default_max_str_digits
\* digits (CPython 3.11).
MaxStrDigits == 4300

\* Index of the last character of the line that starts at p: its "\n", or the
\* end of the text for an unterminated last line.  Standard input is opened
\* with newline="\n": only "\n" ends a line and "\r" is passed through.
LineEnd(text, p) ==
  IF \E q \in p..Len(text) : text[q] = 10
  THEN CHOOSE q \in p..Len(text) :
         text[q] = 10 /\ \A r \in p..(q - 1) : text[r] /= 10
  ELSE Len(text)

\* Mutant: the loop starts as soon as one line is in (for line in sys.stdin).
AtEOFStreaming == pos > 1 \/ pos > Len(stdin)

\* End of file: nothing is left to read.
AtEOF == pos > Len(stdin)

\* line.split(): the maximal runs of non-whitespace characters, in order.
RECURSIVE Split(_)
Split(s) ==
  IF s = <<>> THEN <<>>
  ELSE IF Head(s) \in WhiteSpace THEN Split(Tail(s))
  ELSE LET stop == IF \E q \in 1..Len(s) : s[q] \in WhiteSpace
                   THEN CHOOSE q \in 1..Len(s) :
                          s[q] \in WhiteSpace /\ \A r \in 1..(q - 1) : s[r] \notin WhiteSpace
                   ELSE Len(s) + 1
       IN  <<SubSeq(s, 1, stop - 1)>> \o Split(SubSeq(s, stop, Len(s)))

\* int(c) drops one leading sign ...
Unsigned(tok) ==
  IF tok /= <<>> /\ Head(tok) \in {43, 45} THEN Tail(tok) ELSE tok

\* ... and accepts decimal digits, with single underscores between digits, up
\* to MaxStrDigits digits; anything else raises ValueError.
IsIntLiteral(tok) ==
  LET b == Unsigned(tok)
  IN  /\ b /= <<>>
      /\ IsDigit(b[1])
      /\ IsDigit(b[Len(b)])
      /\ \A k \in 1..Len(b) : IsDigit(b[k]) \/ b[k] = 95
      /\ \A k \in 1..(Len(b) - 1) : ~(b[k] = 95 /\ b[k + 1] = 95)
      /\ Cardinality({k \in 1..Len(b) : IsDigit(b[k])}) <= MaxStrDigits

RECURSIVE Magnitude(_)
Magnitude(b) ==
  IF b = <<>> THEN 0
  ELSE LET c == b[Len(b)]
           rest == SubSeq(b, 1, Len(b) - 1)
       IN  IF c = 95 THEN Magnitude(rest) ELSE 10 * Magnitude(rest) + DigitVal(c)

\* int(c) for a token int() accepts (a Python integer is unbounded; the
\* tokens of the inputs below stay far inside the checker's integers).
IntValue(tok) ==
  IF tok /= <<>> /\ Head(tok) = 45 THEN 0 - Magnitude(Unsigned(tok))
  ELSE Magnitude(Unsigned(tok))

\* labels[n] succeeds for -len(labels) <= n < len(labels) ...
IndexOK(n) == (0 - Len(labels)) <= n /\ n < Len(labels)

\* ... and a negative n counts from the end of the string.
Lookup(n) == IF n >= 0 THEN labels[n + 1] ELSE labels[Len(labels) + n + 1]

\* The exception the list comprehension raises on a row: that of its first
\* failing token, or "none".
RECURSIVE RowError(_)
RowError(toks) ==
  IF toks = <<>> THEN "none"
  ELSE IF ~IsIntLiteral(Head(toks)) THEN "ValueError"
  ELSE IF ~IndexOK(IntValue(Head(toks))) THEN "IndexError"
  ELSE RowError(Tail(toks))

\* Mutant: ' '.join(...), a separator between the characters.
EncodeRowSpaced(toks) ==
  [k \in 1..(IF toks = <<>> THEN 0 ELSE 2 * Len(toks) - 1) |->
     IF k % 2 = 1 THEN Lookup(IntValue(toks[(k + 1) \div 2])) ELSE 32]

\* ''.join([labels[int(c)] for c in toks])
EncodeRow(toks) == [k \in 1..Len(toks) |-> Lookup(IntValue(toks[k]))]

----------------------------------------------------------------------------
\* Inputs.

Chars == {Ord("1"), Ord("6"), Ord("-"), Ord("x"), Ord(" "), Ord("\n")}

CharInputs == UNION {[1..n -> Chars] : n \in 0..MaxLen}

RECURSIVE Numeral(_)
Numeral(n) ==
  IF n < 0 THEN <<45>> \o Numeral(0 - n)
  ELSE IF n < 10 THEN <<48 + n>>
  ELSE Numeral(n \div 10) \o <<48 + (n % 10)>>

\* One line holding one integer, for every value around the alphabet's range.
NumeralInputs == {Numeral(n) \o <<10>> : n \in (0 - NumeralSpan)..NumeralSpan}

In_10_11_12 == Str(<<"1", "0", " ", "1", "1", " ", "1", "2">>)

In_0_then_1_1 == Str(<<"0", "\n", "1", " ", "1">>)

\* A token of one digit more than int() converts.
LongToken == [k \in 1..(MaxStrDigits + 1) |-> 48]

ScenarioInputs ==
  { In_10_11_12,
    In_0_then_1_1,
    Str(<<"0", " ", "1", " ", "2", "\n">>),
    Str(<<"3", "6", " ", "3", "7", "\n">>),
    Str(<<"+", "5", "\n">>),
    Str(<<"1", "_", "0", "\n">>),
    Str(<<"1", "_", "_", "0", "\n">>),
    Str(<<"_", "1", "\n">>),
    Str(<<"0", "0", "7", "\n">>),
    Str(<<"-", "0", "\n">>),
    Str(<<"+", "\n">>),
    Str(<<"\t", "6", "2", "\t", " ", "0", " ", "\f", "\n">>),
    Str(<<"1", "\n", " ", "\t", "\n", "6", "\n">>),
    Str(<<"1", "\r", "\n", "6", "\r", "1", "2">>),
    Str(<<"1", "\r", "6", "\n", "\r", "\n", "\r">>),
    Str(<<"x", "\n", "1", "\n", "6", "\n">>),
    Str(<<"1", " ", "6", "3", "\n", "6", "\n">>),
    <<49, 11, 54, 10, 11, 28, 10, 54, 10>>,
    <<54, 51, 11, 10, 54, 10>>,
    <<49, 29, 30, 31, 50, 133, 51, 160, 52, 5760, 53, 8195, 54, 8232, 55, 12288, 10>>,
    <<1635, 10, 49, 32, 65297, 65298, 10, 49, 1635, 10>>,
    <<1638, 1635, 10>>,
    Str(<<"1", "\n">>) \o LongToken \o Str(<<"\n", "6", "\n">>) }

InputSet == CharInputs \cup NumeralInputs \cup ScenarioInputs

----------------------------------------------------------------------------
\* The program.

Init ==
  /\ stdin \in InputSet
  /\ pos = 1
  /\ lines = <<>>
  /\ pc = "read"
  /\ i = 0
  /\ stdout = <<>>
  /\ err = "none"

\* sys.stdin.readlines() takes the next line, terminator included.
ReadLine ==
  /\ pc = "read"
  /\ ~AtEOF
  /\ LET e == LineEnd(stdin, pos)
     IN  /\ lines' = Append(lines, SubSeq(stdin, pos, e))
         /\ pos' = e + 1
  /\ UNCHANGED <<stdin, pc, i, stdout, err>>

\* readlines() returns at end of file and the for loop starts.
ReadEOF ==
  /\ pc = "read"
  /\ AtEOF
  /\ pc' = "loop"
  /\ UNCHANGED <<stdin, pos, lines, i, stdout, err>>

\* Mutant: print(..., end=''), rows written without a line terminator.
EncodeLineNoNewline ==
  /\ pc = "loop"
  /\ i < Len(lines)
  /\ LET toks == Split(lines[i + 1])
     IN  /\ RowError(toks) = "none"
         /\ stdout' = stdout \o EncodeRow(toks)
  /\ i' = i + 1
  /\ UNCHANGED <<stdin, pos, lines, pc, err>>

\* Mutant: a line without tokens is passed over and nothing is printed for it.
EncodeLineSkipBlank ==
  /\ pc = "loop"
  /\ i < Len(lines)
  /\ LET toks == Split(lines[i + 1])
     IN  /\ RowError(toks) = "none"
         /\ stdout' = IF toks = <<>> THEN stdout
                      ELSE stdout \o EncodeRow(toks) \o <<10>>
  /\ i' = i + 1
  /\ UNCHANGED <<stdin, pos, lines, pc, err>>

\* One iteration of the loop whose row raises nothing: print the row.
EncodeLine ==
  /\ pc = "loop"
  /\ i < Len(lines)
  /\ LET toks == Split(lines[i + 1])
     IN  /\ RowError(toks) = "none"
         /\ stdout' = stdout \o EncodeRow(toks) \o <<10>>
  /\ i' = i + 1
  /\ UNCHANGED <<stdin, pos, lines, pc, err>>

\* int(c) raises ValueError: the exception is not caught, nothing is printed
\* for the row and the process ends.
RaiseValueError ==
  /\ pc = "loop"
  /\ i < Len(lines)
  /\ RowError(Split(lines[i + 1])) = "ValueError"
  /\ pc' = "error"
  /\ err' = "ValueError"
  /\ UNCHANGED <<stdin, pos, lines, i, stdout>>

\* labels[n] raises IndexError, likewise uncaught.
RaiseIndexError ==
  /\ pc = "loop"
  /\ i < Len(lines)
  /\ RowError(Split(lines[i + 1])) = "IndexError"
  /\ pc' = "error"
  /\ err' = "IndexError"
  /\ UNCHANGED <<stdin, pos, lines, i, stdout>>

\* The loop is exhausted: the script ends normally.
Finish ==
  /\ pc = "loop"
  /\ i = Len(lines)
  /\ pc' = "done"
  /\ UNCHANGED <<stdin, pos, lines, i, stdout, err>>

Next ==
  \/ ReadLine
  \/ ReadEOF
  \/ EncodeLine
  \/ RaiseValueError
  \/ RaiseIndexError
  \/ Finish

Spec == Init /\ [][Next]_vars

----------------------------------------------------------------------------
\* Vocabulary of the properties: the specification's Alphabet, lines, tokens
\* and integers, defined without the program's own functions.

\* Alphabet[n], n in 0..62: ".", then the digits 0-9, then a-z, then A-Z.
Alphabet(n) ==
  IF n = 0 THEN 46
  ELSE IF n <= 10 THEN 48 + (n - 1)
  ELSE IF n <= 36 THEN 97 + (n - 11)
  ELSE 65 + (n - 37)

Least(S) == CHOOSE x \in S : \A y \in S : x <= y

\* The k-th smallest element of a set of numbers.
NthOf(S, k) == CHOOSE p \in S : Cardinality({q \in S : q <= p}) = k

\* A line starts at the first character and after every line terminator.
LineStarts(text) == {p \in 1..Len(text) : p = 1 \/ text[p - 1] = 10}

LineCount(text) == Cardinality(LineStarts(text))

\* The k-th line of a text, without its terminator.
LineOf(text, k) ==
  LET p == NthOf(LineStarts(text), k)
      stops == {q \in p..Len(text) : text[q] = 10}
  IN  SubSeq(text, p, IF stops = {} THEN Len(text) ELSE Least(stops) - 1)

\* The lines written so far.
Rows == [k \in 1..LineCount(stdout) |-> LineOf(stdout, k)]

\* A token starts at a non-blank character that begins the line or follows a
\* blank one.
TokenStarts(line) ==
  {p \in 1..Len(line) : line[p] \notin WhiteSpace /\ (p = 1 \/ line[p - 1] \in WhiteSpace)}

TokenCount(line) == Cardinality(TokenStarts(line))

TokenOf(line, k) ==
  LET p == NthOf(TokenStarts(line), k)
      stops == {q \in p..Len(line) : line[q] \in WhiteSpace}
  IN  SubSeq(line, p, IF stops = {} THEN Len(line) ELSE Least(stops) - 1)

TokensOf(line) == [k \in 1..TokenCount(line) |-> TokenOf(line, k)]

\* The tokens of the k-th input line.
InputTokens(k) == TokensOf(LineOf(stdin, k))

BlankLine(k) == TokenCount(LineOf(stdin, k)) = 0

\* A non-negative base-10 integer literal: decimal digits only.
IsDecimal(tok) == tok /= <<>> /\ \A k \in 1..Len(tok) : IsDigit(tok[k])

\* Decimal digits in which a separator "_" may stand between two digits.
IsGrouped(b) ==
  /\ b /= <<>>
  /\ \A k \in 1..Len(b) :
       \/ IsDigit(b[k])
       \/ b[k] = 95 /\ 1 < k /\ k < Len(b) /\ IsDigit(b[k - 1]) /\ IsDigit(b[k + 1])

\* A base-10 integer in the widest reading: digits, possibly signed, possibly
\* grouped.  Everything else does not parse as an integer.
IsInteger(tok) ==
  \/ IsGrouped(tok)
  \/ tok /= <<>> /\ Head(tok) \in {43, 45} /\ IsGrouped(Tail(tok))

\* The places of the digits of a token from its first non-zero digit on.
Significant(tok) ==
  LET nonzero == {k \in 1..Len(tok) : IsDigit(tok[k]) /\ DigitVal(tok[k]) /= 0}
  IN  IF nonzero = {} THEN {}
      ELSE {k \in Least(nonzero)..Len(tok) : IsDigit(tok[k])}

\* The integer a token denotes; a magnitude of three or more significant
\* digits is given as 100, which lies outside every range used below.
IntegerOf(tok) ==
  LET sig == Significant(tok)
      mag == IF sig = {} THEN 0
             ELSE IF Cardinality(sig) = 1 THEN DigitVal(tok[Least(sig)])
             ELSE IF Cardinality(sig) = 2
                  THEN 10 * DigitVal(tok[Least(sig)]) + DigitVal(tok[NthOf(sig, 2)])
             ELSE 100
  IN  IF Head(tok) = 45 THEN 0 - mag ELSE mag

InRange(n) == 0 <= n /\ n <= 62

\* A token that is an integer in [0,62].
ValidToken(tok) == IsInteger(tok) /\ InRange(IntegerOf(tok))

OutOfRangeToken(tok) == IsInteger(tok) /\ ~InRange(IntegerOf(tok))

ValidLine(k) == \A t \in 1..TokenCount(LineOf(stdin, k)) : ValidToken(InputTokens(k)[t])

ValidInput == \A k \in 1..LineCount(stdin) : ValidLine(k)

\* The integers of a valid line and the encoding the Alphabet gives them.
RowValues(k) == [t \in 1..Len(InputTokens(k)) |-> IntegerOf(InputTokens(k)[t])]

Encoding(k) == [t \in 1..Len(InputTokens(k)) |-> Alphabet(RowValues(k)[t])]

\* Inverse lookup of an output line in the program's table.
Decode(row) == [t \in 1..Len(row) |-> CHOOSE n \in 0..62 : labels[n + 1] = row[t]]

Terminated == pc \in {"done", "error"}

\* The line holding the first token that is not an integer in [0,62].
FirstBadLine == Least({k \in 1..LineCount(stdin) : ~ValidLine(k)})

\* That token.
FirstBadToken ==
  LET toks == InputTokens(FirstBadLine)
  IN  toks[Least({t \in 1..Len(toks) : ~ValidToken(toks[t])})]

----------------------------------------------------------------------------
\* Properties.

\* C1: a completed run on an input of N lines whose tokens are all integers
\* in [0,62] has written exactly N lines, each terminated, and the k-th is the
\* encoding of the k-th input line.
C1_LinesPreserved ==
  (pc = "done" /\ ValidInput) =>
    /\ stdout = <<>> \/ stdout[Len(stdout)] = 10
    /\ Rows = [k \in 1..LineCount(stdin) |-> Encoding(k)]

C1_Witness ==
  /\ pc = "done"
  /\ ValidInput
  /\ LineCount(stdin) >= 3
  /\ Len(Rows) >= 3
  /\ Rows[1] /= Rows[3]

\* C2 as claimed: a token whose integer value is below 0 or above 62 ends the
\* run with IndexError and no character is ever written for it.
C2_OutOfRangeRaisesIndexError ==
  /\ \A k \in 1..Len(Rows) :
       \A t \in 1..Len(InputTokens(k)) : ~OutOfRangeToken(InputTokens(k)[t])
  /\ (Terminated /\ ~ValidInput /\ OutOfRangeToken(FirstBadToken)) =>
       (pc = "error" /\ err = "IndexError")

\* C3: every written line whose input tokens are all integers in [0,62]
\* decodes, by inverse lookup in the table, to exactly those integers; the
\* table holds 63 pairwise distinct characters.
C3_RoundTrip ==
  /\ Len(labels) = 63
  /\ Cardinality({labels[n] : n \in 1..Len(labels)}) = 63
  /\ \A k \in 1..Len(Rows) : ValidLine(k) => Decode(Rows[k]) = RowValues(k)

C3_Witness ==
  /\ pc = "done"
  /\ \E k \in 1..Len(Rows) :
       /\ ValidLine(k)
       /\ Len(Rows[k]) >= 2
       /\ Rows[k][1] /= Rows[k][2]
       /\ Decode(Rows[k])[2] > 10

\* C4 as claimed: when the first token that is not an integer in [0,62] is on
\* line k, the run ends in an error and the output is exactly the encodings of
\* lines 1..k-1.
C4_FailFastPrefix ==
  (Terminated /\ ~ValidInput) =>
    /\ pc = "error"
    /\ Rows = [k \in 1..(FirstBadLine - 1) |-> Encoding(k)]

\* C5 as claimed: a token that is not a non-negative decimal literal ends the
\* run with a parse error (ValueError), so no line holding one is written and
\* no run holding one completes.
C5_NonLiteralRaisesParseError ==
  /\ \A k \in 1..Len(Rows) :
       \A t \in 1..Len(InputTokens(k)) : IsDecimal(InputTokens(k)[t])
  /\ (Terminated /\ ~ValidInput /\ ~IsDecimal(FirstBadToken)) =>
       (pc = "error" /\ err = "ValueError")

\* C6 as claimed: the input line "10 11 12" is written as "abc".
C6_Original_abc ==
  (Terminated /\ stdin = In_10_11_12) =>
    (pc = "done" /\ stdout = Str(<<"a", "b", "c", "\n">>))

\* C6, amended: the input line "10 11 12" is written as "9ab": index 10 is
\* '9', the last digit, and index 11 is 'a', the first lowercase letter.
C6_Row_9ab ==
  (Terminated /\ stdin = In_10_11_12) =>
    (pc = "done" /\ stdout = Str(<<"9", "a", "b", "\n">>))

C6_Witness == pc = "done" /\ stdin = In_10_11_12 /\ Len(stdout) = 4

\* C7 as claimed: the lines "0" and "1 1" are written as "." and "11".
C7_Original_11 ==
  (Terminated /\ stdin = In_0_then_1_1) =>
    (pc = "done" /\ stdout = Str(<<".", "\n", "1", "1", "\n">>))

\* C7, amended: the lines "0" and "1 1" are written as "." and "00": index 0
\* is '.' and index 1 is the character '0'.
C7_Rows_dot_00 ==
  (Terminated /\ stdin = In_0_then_1_1) =>
    (pc = "done" /\ stdout = Str(<<".", "\n", "0", "0", "\n">>))

C7_Witness == pc = "done" /\ stdin = In_0_then_1_1 /\ Len(Rows) = 2

\* C8: every output line whose input line holds only integers in [0,62] is as
\* long as that input line has whitespace-delimited tokens, however much
\* whitespace separates or surrounds them; a completed run on such an input
\* has written a line for every input line.
C8_LengthIsTokenCount ==
  /\ \A k \in 1..Len(Rows) :
       ValidLine(k) => Len(Rows[k]) = TokenCount(LineOf(stdin, k))
  /\ (pc = "done" /\ ValidInput) => Len(Rows) = LineCount(stdin)

C8_Witness ==
  /\ pc = "done"
  /\ ValidInput
  /\ \E k \in 1..Len(Rows) :
       LET line == LineOf(stdin, k)
       IN  /\ Len(Rows[k]) = 2
           /\ Len(line) >= 5
           /\ line[1] \in WhiteSpace
           /\ \E p \in 2..(Len(line) - 1) : line[p] \in WhiteSpace /\ line[p + 1] \in WhiteSpace

\* C9: every line the loop has passed has exactly one output line, which is
\* empty when the input line is blank; a blank line never ends the run in an
\* error; the lines around it are written with their encodings.
C9_BlankLine ==
  /\ Len(Rows) = i
  /\ \A k \in 1..Len(Rows) : BlankLine(k) => Rows[k] = <<>>
  /\ \A k \in 1..Len(Rows) : (~BlankLine(k) /\ ValidLine(k)) => Rows[k] = Encoding(k)
  /\ pc = "error" => ~BlankLine(i + 1)
  /\ pc = "done" => i = LineCount(stdin)

C9_Witness ==
  /\ pc = "done"
  /\ Len(Rows) = 3
  /\ Rows[1] /= <<>>
  /\ BlankLine(2)
  /\ Len(LineOf(stdin, 2)) >= 1
  /\ Rows[2] = <<>>
  /\ Rows[3] /= <<>>

\* C10: nothing is written and no error is raised before standard input has
\* been read to its end.
C10_ReadAllBeforeOutput ==
  (stdout /= <<>> \/ err /= "none" \/ pc /= "read") =>
    (pos > Len(stdin) /\ Len(lines) = LineCount(stdin))

C10_Witness ==
  /\ pc = "error"
  /\ i = 0
  /\ LineCount(stdin) >= 2
  /\ pos > Len(stdin)
  /\ Len(lines) = LineCount(stdin)

====
